---- MODULE Spec2Model ----
(***************************************************************************)
(* The alert routes of rescuelink-backend (src/src/routes/alerts.js) as a  *)
(* state machine over the record store.  The store holds the alerts table  *)
(* and the status column of the vehicles table; every handler is a short   *)
(* ordered sequence of store calls, and one step of the model is one store *)
(* call together with the handler code that runs up to the next await.     *)
(* updated_at, reported_at, description, latitude, longitude and image_url *)
(* are written but never read by any decision of the handlers and are left *)
(* out of the alert record.                                                *)
(***************************************************************************)
EXTENDS Integers, FiniteSets, Sequences, TLC

VARIABLES alerts, vehicles, nextId, creator, clean, req, resp

vars == <<alerts, vehicles, nextId, creator, clean, req, resp>>

\* ------------------------------------------------------------------ bounds
MaxAlerts == 1
MaxListed == 2
NumVehicles == 2
NumUsers == 2
NumSlots == 2

\* ---------------------------------------------------------------- constants
\* JavaScript null, undefined or 0 where an id is expected: every id of the
\* store is >= 1.
NULL == 0
\* The value of a string key the request does not carry (undefined).
ABSENT == "<absent>"

Roles == {"user", "rescuer", "dispatcher", "admin"}
validStatuses == {"pending", "responding", "resolved", "cancelled"}
validAlertTypes == {"medical", "fire", "accident", "crime", "natural_disaster", "other"}
\* A faulty variant of validSeverities: one more level is let through.
validSeveritiesLax == {"low", "medium", "high", "critical", "extreme"}
validSeverities == {"low", "medium", "high", "critical"}

updateRoles == {"admin", "dispatcher"}
\* A faulty variant of statusRoles: role user may set a status.
statusRolesLax == {"admin", "dispatcher", "rescuer", "user"}
statusRoles == {"admin", "dispatcher", "rescuer"}
\* A faulty variant of assignRoles: role rescuer may assign.
assignRolesLax == {"admin", "dispatcher", "rescuer"}
assignRoles == {"admin", "dispatcher"}
deleteRoles == {"admin"}

AlertIds == 1..MaxAlerts
Vehicles == 1..NumVehicles
Users == 1..NumUsers
Slots == 1..NumSlots

\* ------------------------------------------------------------ pure helpers
\* A request body or query is a record holding the keys the client sent.
\* Destructuring a key the body does not carry gives undefined.
Has(body, k) == k \in DOMAIN body

\* JavaScript truthiness of body[k], by the type of the value: undefined, the
\* empty string, the empty text, 0 and null are falsy.  Text (title, location)
\* is a sequence of one-character strings.
TruthyStr(body, k) == Has(body, k) /\ body[k] # ""
TruthyText(body, k) == Has(body, k) /\ body[k] # << >>
TruthyId(body, k) == Has(body, k) /\ body[k] # NULL

\* const { k } = req.body, for a string key
StrOf(body, k) == IF Has(body, k) THEN body[k] ELSE ABSENT

\* body[k] || null, for an id key
IdOrNull(body, k) == IF TruthyId(body, k) THEN body[k] ELSE NULL

IsSpace(c) == c = " "

RECURSIVE TrimStart(_)
TrimStart(s) == IF s # << >> /\ IsSpace(Head(s)) THEN TrimStart(Tail(s)) ELSE s

RECURSIVE TrimEnd(_)
TrimEnd(s) ==
    IF s # << >> /\ IsSpace(s[Len(s)]) THEN TrimEnd(SubSeq(s, 1, Len(s) - 1)) ELSE s

\* String.prototype.trim
Trim(s) == TrimEnd(TrimStart(s))

\* The rows of a set of alert ids, newest first: ids are handed out in
\* creation order, so descending id is descending reported_at.
RECURSIVE OrderDesc(_)
OrderDesc(ids) ==
    IF ids = {} THEN << >>
    ELSE LET m == CHOOSE i \in ids : \A j \in ids : j <= i
         IN <<alerts[m]>> \o OrderDesc(ids \ {m})

\* ------------------------------------------------------- the record store
\* A store call either fails (ok = FALSE: an error, no effect) or is applied.
\* .single(): the result must be exactly one row, otherwise the store answers
\* with an error (PostgREST PGRST116) and data is null.  data is the sequence
\* of the rows returned: << >> is null.
Single(ok, table, ids) ==
    IF ok /\ Cardinality(ids) = 1
    THEN [error |-> FALSE, data |-> <<table[CHOOSE i \in ids : TRUE]>>]
    ELSE [error |-> TRUE, data |-> << >>]

\* .eq('id', id) on the alerts table
AlertsById(id) == {i \in DOMAIN alerts : i = id}

\* .update(patch): the keys of the patch overwrite the row's columns
Merge(patch, row) ==
    [f \in DOMAIN row |-> IF f \in DOMAIN patch THEN patch[f] ELSE row[f]]

\* from('alerts').update(patch).eq('id', id): the table afterwards
UpdatedAlerts(ok, id, patch) ==
    IF ok
    THEN [i \in DOMAIN alerts |-> IF i = id THEN Merge(patch, alerts[i]) ELSE alerts[i]]
    ELSE alerts

\* from('vehicles').update({status}).eq('id', v): the table afterwards
UpdatedVehicles(ok, v, status) ==
    IF ok
    THEN [i \in DOMAIN vehicles |-> IF i = v THEN status ELSE vehicles[i]]
    ELSE vehicles

\* from('alerts').delete().eq('id', id): the table afterwards
DeletedAlerts(ok, id) ==
    IF ok THEN [i \in DOMAIN alerts \ {id} |-> alerts[i]] ELSE alerts

\* --------------------------------------------------------- handler state
\* A slot holds one request from its arrival to its response.  Between store
\* calls it keeps the handler's locals: the request q, currentAlert's
\* assigned_vehicle_id (cur) and the row the alert write returned (data).
\* pre and fails are history: the store when the request arrived, and the
\* store calls of the request that failed so far.  clean is history too: no
\* store call of any request has failed since the start.
Idle == [pc |-> "idle"]
NoResp == [q |-> [op |-> "none"], code |-> 0]

Store == [alerts |-> alerts, vehicles |-> vehicles]

\* The failed store calls after one more call, named call.
Failed(ok, call) == IF ok THEN {} ELSE {call}

\* What a finished request leaves behind: the request as the handler read it,
\* the status code and body it answered with, and the history.
\* A faulty variant of Answer: a server error is answered as a success.
AnswerMasked(q, code, data, pre, fails) ==
    [q |-> q, code |-> IF code = 500 THEN 200 ELSE code, data |-> data,
     pre |-> pre, fails |-> fails]

Answer(q, code, data, pre, fails) ==
    [q |-> q, code |-> code, data |-> data, pre |-> pre, fails |-> fails]

Finish(r, ans) ==
    /\ req' = [req EXCEPT ![r] = [pc |-> "done"]]
    /\ resp' = [resp EXCEPT ![r] = ans]
    /\ clean' = (clean /\ ans.fails = {})

\* res.json(...) has been sent: the response leaves and the slot is free.
Respond(r) ==
    /\ req[r].pc = "done"
    /\ req' = [req EXCEPT ![r] = Idle]
    /\ resp' = [resp EXCEPT ![r] = NoResp]
    /\ UNCHANGED <<alerts, vehicles, nextId, creator, clean>>

Suspend(r, pc, q, cur, data, pre, fails) ==
    /\ req' = [req EXCEPT ![r] = [pc |-> pc, q |-> q, cur |-> cur, data |-> data,
                                  pre |-> pre, fails |-> fails]]
    /\ resp' = [resp EXCEPT ![r] = NoResp]
    /\ clean' = (clean /\ fails = {})

Quiescent == \A s \in Slots : req[s].pc = "idle"

Init ==
    /\ alerts = << >>
    /\ vehicles = [v \in Vehicles |-> "available"]
    /\ nextId = 1
    /\ creator = << >>
    /\ clean = TRUE
    /\ req = [s \in Slots |-> Idle]
    /\ resp = [s \in Slots |-> NoResp]

\* ------------------------------------------------------------ GET /alerts
\* A faulty variant of ListMatches: a requested user_id filter wins over the
\* caller's own id.
ListMatchesUnforced(role, uid, query) ==
    {i \in DOMAIN alerts :
        /\ TruthyStr(query, "status") => alerts[i].status = query.status
        /\ TruthyStr(query, "alert_type") => alerts[i].alert_type = query.alert_type
        /\ IF TruthyId(query, "user_id")
           THEN alerts[i].user_id = query.user_id
           ELSE role = "user" => alerts[i].user_id = uid}

\* The rows List selects: the status and alert_type filters when given, and
\* the owner filter, forced to the caller for role user.
ListMatches(role, uid, query) ==
    {i \in DOMAIN alerts :
        /\ TruthyStr(query, "status") => alerts[i].status = query.status
        /\ TruthyStr(query, "alert_type") => alerts[i].alert_type = query.alert_type
        /\ IF role = "user"
           THEN alerts[i].user_id = uid
           ELSE TruthyId(query, "user_id") => alerts[i].user_id = query.user_id}

List(r, role, uid, query) ==
    /\ req[r].pc = "idle"
    /\ \E ok \in BOOLEAN :
         LET q == [op |-> "list", role |-> role, uid |-> uid, query |-> query]
         IN IF ok
            THEN Finish(r, Answer(q, 200, OrderDesc(ListMatches(role, uid, query)), Store, {}))
            ELSE Finish(r, Answer(q, 500, << >>, Store, {"read"}))
    /\ UNCHANGED <<alerts, vehicles, nextId, creator>>

\* -------------------------------------------------------- GET /alerts/:id
\* A faulty variant of GetDenied: the caller is compared with the alert's id.
GetDeniedById(role, uid, row) == role = "user" /\ row.id # uid

\* if (req.user.role === 'user' && data.user_id !== req.user.id)
GetDenied(role, uid, row) == role = "user" /\ row.user_id # uid

Get(r, role, uid, id) ==
    /\ req[r].pc = "idle"
    /\ \E ok \in BOOLEAN :
         LET q == [op |-> "get", role |-> role, uid |-> uid, id |-> id]
             res == Single(ok, alerts, AlertsById(id))
         IN IF res.error
            THEN Finish(r, Answer(q, 500, << >>, Store, Failed(ok, "read")))
            ELSE IF res.data = << >>
            THEN Finish(r, Answer(q, 404, << >>, Store, Failed(ok, "read")))
            ELSE IF GetDenied(role, uid, res.data[1])
            THEN Finish(r, Answer(q, 403, << >>, Store, Failed(ok, "read")))
            ELSE Finish(r, Answer(q, 200, res.data, Store, Failed(ok, "read")))
    /\ UNCHANGED <<alerts, vehicles, nextId, creator>>

\* ----------------------------------------------------------- POST /alerts
\* if (!alert_type || !severity || !title || !location)
MissingRequired(body) ==
    \/ ~TruthyStr(body, "alert_type")
    \/ ~TruthyStr(body, "severity")
    \/ ~TruthyText(body, "title")
    \/ ~TruthyText(body, "location")

\* The record Create inserts: the owner is the caller, whatever the body says.
alertData(uid, body) ==
    [id |-> nextId,
     user_id |-> uid,
     alert_type |-> body.alert_type,
     severity |-> body.severity,
     title |-> Trim(body.title),
     location |-> Trim(body.location),
     status |-> "pending",
     assigned_vehicle_id |-> NULL,
     assigned_responder_id |-> NULL]

Create(r, uid, body) ==
    /\ req[r].pc = "idle"
    /\ LET q == [op |-> "create", uid |-> uid, body |-> body]
       IN IF MissingRequired(body)
             \/ body.alert_type \notin validAlertTypes
             \/ body.severity \notin validSeverities
          THEN /\ Finish(r, Answer(q, 400, << >>, Store, {}))
               /\ UNCHANGED <<alerts, nextId, creator>>
          ELSE \E ok \in BOOLEAN :
                 IF ok
                 THEN /\ alerts' = (nextId :> alertData(uid, body)) @@ alerts
                      /\ creator' = (nextId :> uid) @@ creator
                      /\ nextId' = nextId + 1
                      /\ Finish(r, Answer(q, 201, <<alertData(uid, body)>>, Store, {}))
                 ELSE /\ Finish(r, Answer(q, 500, << >>, Store, {"insert"}))
                      /\ UNCHANGED <<alerts, nextId, creator>>
    /\ UNCHANGED vehicles

\* -------------------------------------------------------- PUT /alerts/:id
Update(r, role, id, body) ==
    /\ req[r].pc = "idle"
    /\ LET q == [op |-> "update", role |-> role, id |-> id, body |-> body]
       IN IF role \notin updateRoles
          THEN /\ Finish(r, Answer(q, 403, << >>, Store, {}))
               /\ UNCHANGED alerts
          ELSE \E ok \in BOOLEAN :
                 LET after == UpdatedAlerts(ok, id, body)
                     res == Single(ok, after, AlertsById(id))
                 IN IF res.error
                    THEN /\ Finish(r, Answer(q, 500, << >>, Store, Failed(ok, "write")))
                         /\ UNCHANGED alerts
                    ELSE IF res.data = << >>
                    THEN /\ Finish(r, Answer(q, 404, << >>, Store, Failed(ok, "write")))
                         /\ UNCHANGED alerts
                    ELSE /\ alerts' = after
                         /\ Finish(r, Answer(q, 200, res.data, Store, Failed(ok, "write")))
    /\ UNCHANGED <<vehicles, nextId, creator>>

\* ----------------------------------------------------- DELETE /alerts/:id
Delete(r, role, id) ==
    /\ req[r].pc = "idle"
    /\ LET q == [op |-> "delete", role |-> role, id |-> id]
       IN IF role \notin deleteRoles
          THEN /\ Finish(r, Answer(q, 403, << >>, Store, {}))
               /\ UNCHANGED alerts
          ELSE \E ok \in BOOLEAN :
                 IF ok
                 THEN /\ alerts' = DeletedAlerts(ok, id)
                      /\ Finish(r, Answer(q, 200, << >>, Store, {}))
                 ELSE /\ Finish(r, Answer(q, 500, << >>, Store, {"delete"}))
                      /\ UNCHANGED alerts
    /\ UNCHANGED <<vehicles, nextId, creator>>

\* ------------------------------------------------ PATCH /alerts/:id/status
\* A faulty variant of SetStatusVerdict: a status that a stored alert already
\* has is refused.
SetStatusVerdictNoRepeat(role, status) ==
    IF status \notin validStatuses THEN 400
    ELSE IF role \notin statusRoles THEN 403
    ELSE IF \E i \in DOMAIN alerts : alerts[i].status = status THEN 409
    ELSE 0

\* A faulty variant of SetStatusVerdict: a resolved alert stays resolved.
SetStatusVerdictNoReopen(role, status) ==
    IF status \notin validStatuses THEN 400
    ELSE IF role \notin statusRoles THEN 403
    ELSE IF \E i \in DOMAIN alerts : alerts[i].status = "resolved" THEN 409
    ELSE 0

\* A faulty variant of SetStatusVerdict: the role is checked first.
SetStatusVerdictRoleFirst(role, status) ==
    IF role \notin statusRoles THEN 403
    ELSE IF status \notin validStatuses THEN 400
    ELSE 0

\* What the handler answers before any store call: 400 for a status outside
\* validStatuses, then 403 for a role outside statusRoles; 0 lets it proceed.
SetStatusVerdict(role, status) ==
    IF status \notin validStatuses THEN 400
    ELSE IF role \notin statusRoles THEN 403
    ELSE 0

\* A faulty variant of ReconcileStatus: cancelled frees the vehicle too.
ReconcileStatusCancelFrees(status) ==
    IF status = "responding" THEN "responding"
    ELSE IF status \in {"resolved", "cancelled"} THEN "available"
    ELSE ABSENT

\* A faulty variant of ReconcileStatus: resolved does not free the vehicle.
ReconcileStatusNoRelease(status) ==
    IF status = "responding" THEN "responding" ELSE ABSENT

\* The vehicle status the new alert status asks for: responding for
\* responding, available for resolved, none (ABSENT) otherwise.
ReconcileStatus(status) ==
    IF status = "responding" THEN "responding"
    ELSE IF status = "resolved" THEN "available"
    ELSE ABSENT

\* A faulty variant of VehicleWriteCode: a failed vehicle write is answered 500.
VehicleWriteCodeSurfaced(ok) == IF ok THEN 200 ELSE 500

\* The status code after a vehicle status write: the result of the write is
\* not looked at (SetStatus, release) or only logged (claim).
VehicleWriteCode(ok) == 200

\* Validation, authorization and the alert write.
SetStatusBegin(r, role, id, body) ==
    /\ req[r].pc = "idle"
    /\ LET status == StrOf(body, "status")
           q == [op |-> "status", role |-> role, id |-> id, status |-> status]
           verdict == SetStatusVerdict(role, status)
       IN IF verdict # 0
          THEN /\ Finish(r, Answer(q, verdict, << >>, Store, {}))
               /\ UNCHANGED alerts
          ELSE \E ok \in BOOLEAN :
                 LET after == UpdatedAlerts(ok, id, [status |-> status])
                     res == Single(ok, after, AlertsById(id))
                 IN IF res.error
                    THEN /\ Finish(r, Answer(q, 500, << >>, Store, Failed(ok, "write")))
                         /\ UNCHANGED alerts
                    ELSE /\ alerts' = after
                         /\ IF /\ ReconcileStatus(status) # ABSENT
                               /\ res.data[1].assigned_vehicle_id # NULL
                            THEN Suspend(r, "status_vehicle", q, NULL, res.data, Store, {})
                            ELSE Finish(r, Answer(q, 200, res.data, Store, {}))
    /\ UNCHANGED <<vehicles, nextId, creator>>

\* The vehicle status write of lines 360-366, and the response.
SetStatusVehicle(r) ==
    /\ req[r].pc = "status_vehicle"
    /\ \E ok \in BOOLEAN :
         LET c == req[r]
         IN /\ vehicles' = UpdatedVehicles(ok, c.data[1].assigned_vehicle_id,
                                           ReconcileStatus(c.q.status))
            /\ Finish(r, Answer(c.q, VehicleWriteCode(ok), c.data, c.pre,
                             c.fails \cup Failed(ok, "vehicle")))
    /\ UNCHANGED <<alerts, nextId, creator>>

\* ------------------------------------------------ PATCH /alerts/:id/assign
\* A faulty variant of ReleaseNeeded: the old vehicle is released when it is
\* the one being assigned again.
ReleaseNeededSame(cur, vehicle_id) == cur # NULL /\ cur = vehicle_id

\* currentAlert?.assigned_vehicle_id && currentAlert.assigned_vehicle_id !== vehicle_id
\* (a stored id is >= 1, so it differs from an undefined, null or 0 vehicle_id)
ReleaseNeeded(cur, vehicle_id) == cur # NULL /\ cur # vehicle_id

\* if (vehicle_id)
ClaimNeeded(vehicle_id) == vehicle_id # NULL

\* Authorization and the read of the current assignment.
AssignBegin(r, role, id, body) ==
    /\ req[r].pc = "idle"
    /\ LET q == [op |-> "assign", role |-> role, id |-> id,
                 vehicle_id |-> IdOrNull(body, "vehicle_id"),
                 responder_id |-> IdOrNull(body, "responder_id")]
       IN IF role \notin assignRoles
          THEN Finish(r, Answer(q, 403, << >>, Store, {}))
          ELSE \E ok \in BOOLEAN :
                 LET res == Single(ok, alerts, AlertsById(id))
                 IN IF res.error
                    THEN Finish(r, Answer(q, 500, << >>, Store, Failed(ok, "read")))
                    ELSE Suspend(r, "assign_write", q, res.data[1].assigned_vehicle_id,
                                 << >>, Store, {})
    /\ UNCHANGED <<alerts, vehicles, nextId, creator>>

\* The alert write.
AssignWrite(r) ==
    /\ req[r].pc = "assign_write"
    /\ \E ok \in BOOLEAN :
         LET c == req[r]
             after == UpdatedAlerts(ok, c.q.id,
                                    [assigned_vehicle_id |-> c.q.vehicle_id,
                                     assigned_responder_id |-> c.q.responder_id])
             res == Single(ok, after, AlertsById(c.q.id))
         IN IF res.error
            THEN /\ Finish(r, Answer(c.q, 500, << >>, c.pre, c.fails \cup Failed(ok, "write")))
                 /\ UNCHANGED alerts
            ELSE /\ alerts' = after
                 /\ IF ReleaseNeeded(c.cur, c.q.vehicle_id)
                    THEN Suspend(r, "assign_release", c.q, c.cur, res.data, c.pre, c.fails)
                    ELSE IF ClaimNeeded(c.q.vehicle_id)
                    THEN Suspend(r, "assign_claim", c.q, c.cur, res.data, c.pre, c.fails)
                    ELSE Finish(r, Answer(c.q, 200, res.data, c.pre, c.fails))
    /\ UNCHANGED <<vehicles, nextId, creator>>

\* The old vehicle back to available.
AssignRelease(r) ==
    /\ req[r].pc = "assign_release"
    /\ \E ok \in BOOLEAN :
         LET c == req[r]
         IN /\ vehicles' = UpdatedVehicles(ok, c.cur, "available")
            /\ IF ClaimNeeded(c.q.vehicle_id)
               THEN Suspend(r, "assign_claim", c.q, c.cur, c.data, c.pre,
                            c.fails \cup Failed(ok, "release"))
               ELSE Finish(r, Answer(c.q, VehicleWriteCode(ok), c.data, c.pre,
                                     c.fails \cup Failed(ok, "release")))
    /\ UNCHANGED <<alerts, nextId, creator>>

\* The new vehicle to assigned, and the response.
AssignClaim(r) ==
    /\ req[r].pc = "assign_claim"
    /\ \E ok \in BOOLEAN :
         LET c == req[r]
         IN /\ vehicles' = UpdatedVehicles(ok, c.q.vehicle_id, "assigned")
            /\ Finish(r, Answer(c.q, VehicleWriteCode(ok), c.data, c.pre,
                                  c.fails \cup Failed(ok, "claim")))
    /\ UNCHANGED <<alerts, nextId, creator>>

\* The store an Assign leaves when it runs from store st with no other request
\* beside it and every store call succeeding: the read, the alert write, the
\* release of the old vehicle and the claim of the new one, in that order.  A
\* read that finds no alert ends the request with nothing written.
AssignAlone(st, q) ==
    IF q.id \notin DOMAIN st.alerts THEN st
    ELSE LET cur == st.alerts[q.id].assigned_vehicle_id
             written == [st.alerts EXCEPT ![q.id] =
                            Merge([assigned_vehicle_id |-> q.vehicle_id,
                                   assigned_responder_id |-> q.responder_id], @)]
             released == IF ReleaseNeeded(cur, q.vehicle_id)
                         THEN [st.vehicles EXCEPT ![cur] = "available"]
                         ELSE st.vehicles
             claimed == IF ClaimNeeded(q.vehicle_id)
                        THEN [released EXCEPT ![q.vehicle_id] = "assigned"]
                        ELSE released
         IN [alerts |-> written, vehicles |-> claimed]

\* ------------------------------------------------------------- the inputs
EmptyBody == [k \in {} |-> NULL]

GoodBody == [alert_type |-> "fire", severity |-> "high", title |-> <<"a">>,
             location |-> <<"b">>]

\* Create: a valid payload, the same with a forged user_id, and payloads the
\* validation rejects.
CreateBodies ==
    {GoodBody}
    \cup {[user_id |-> u] @@ GoodBody : u \in Users}
    \cup {[severity |-> "high", title |-> <<"a">>, location |-> <<"b">>],
          [alert_type |-> "flood"] @@ GoodBody}

UpdateBodies ==
    {EmptyBody}
    \cup {[status |-> s] : s \in validStatuses \cup {"archived"}}
    \cup {[assigned_vehicle_id |-> v] : v \in {NULL} \cup Vehicles}
    \cup {[user_id |-> u] : u \in Users}

StatusBodies == {EmptyBody} \cup {[status |-> s] : s \in validStatuses \cup {"bogus"}}

AssignBodies ==
    {EmptyBody}
    \cup {[vehicle_id |-> v] : v \in {NULL} \cup Vehicles}
    \cup {[vehicle_id |-> v, responder_id |-> 1] : v \in Vehicles}

Queries ==
    {EmptyBody, [status |-> "pending"], [alert_type |-> "fire"]}
    \cup {[user_id |-> u] : u \in Users}

\* ------------------------------------------------- requests one at a time
DoList ==
    \E role \in Roles, uid \in Users, query \in Queries :
        Quiescent /\ List(1, role, uid, query)

DoGet ==
    \E role \in Roles, uid \in Users, id \in AlertIds :
        Quiescent /\ Get(1, role, uid, id)

DoCreate ==
    \E uid \in Users, body \in CreateBodies :
        Quiescent /\ nextId <= MaxAlerts /\ Create(1, uid, body)

DoUpdate ==
    \E role \in Roles, id \in AlertIds, body \in UpdateBodies :
        Quiescent /\ Update(1, role, id, body)

DoSetStatus ==
    \E role \in Roles, id \in AlertIds, body \in StatusBodies :
        Quiescent /\ SetStatusBegin(1, role, id, body)

DoAssign ==
    \E role \in Roles, id \in AlertIds, body \in AssignBodies :
        Quiescent /\ AssignBegin(1, role, id, body)

DoDelete ==
    \E role \in Roles, id \in AlertIds :
        Quiescent /\ Delete(1, role, id)

StepSetStatusVehicle == \E r \in Slots : SetStatusVehicle(r)

StepAssignWrite == \E r \in Slots : AssignWrite(r)

StepAssignRelease == \E r \in Slots : AssignRelease(r)

StepAssignClaim == \E r \in Slots : AssignClaim(r)

StepRespond == \E r \in Slots : Respond(r)

Next ==
    \/ DoList
    \/ DoGet
    \/ DoCreate
    \/ DoUpdate
    \/ DoSetStatus
    \/ DoAssign
    \/ DoDelete
    \/ StepSetStatusVehicle
    \/ StepAssignWrite
    \/ StepAssignRelease
    \/ StepAssignClaim
    \/ StepRespond

Spec == Init /\ [][Next]_vars

\* ------------------------------------- reading: two alerts, no dispatch
ReadBodies == {GoodBody, [alert_type |-> "medical"] @@ GoodBody}

ReadQueries ==
    {EmptyBody, [status |-> "pending"], [alert_type |-> "fire"]}
    \cup {[user_id |-> u] : u \in Users}
    \cup {[user_id |-> u, alert_type |-> "fire"] : u \in Users}

ListedIds == 1..MaxListed

ReadCreate ==
    \E uid \in Users, body \in ReadBodies :
        Quiescent /\ nextId <= MaxListed /\ Create(1, uid, body)

ReadUpdate ==
    \E role \in Roles, id \in ListedIds, u \in Users :
        Quiescent /\ Update(1, role, id, [user_id |-> u])

ReadList ==
    \E role \in Roles, uid \in Users, query \in ReadQueries :
        Quiescent /\ List(1, role, uid, query)

ReadGet ==
    \E role \in Roles, uid \in Users, id \in ListedIds :
        Quiescent /\ Get(1, role, uid, id)

ReadDelete ==
    \E role \in Roles, id \in ListedIds :
        Quiescent /\ Delete(1, role, id)

NextRead ==
    \/ ReadCreate
    \/ ReadUpdate
    \/ ReadList
    \/ ReadGet
    \/ ReadDelete
    \/ StepRespond

SpecRead == Init /\ [][NextRead]_vars

\* ------------------------- the fleet: two alerts, every shape of payload
\* One required key left out of a valid payload.
Without(body, f) == [k \in DOMAIN body \ {f} |-> body[k]]

\* Create payloads: valid, one required key absent or empty, a value outside
\* its enumeration, and text that is blank or padded with blanks.
FleetBodies ==
    {GoodBody}
    \cup {Without(GoodBody, f) : f \in DOMAIN GoodBody}
    \cup {[alert_type |-> ""] @@ GoodBody, [severity |-> ""] @@ GoodBody,
          [title |-> << >>] @@ GoodBody, [location |-> << >>] @@ GoodBody}
    \cup {[alert_type |-> "flood"] @@ GoodBody, [severity |-> "extreme"] @@ GoodBody}
    \cup {[title |-> <<" ">>] @@ GoodBody, [location |-> <<" ", " ">>] @@ GoodBody,
          [title |-> <<" ", "a", " ">>] @@ GoodBody}

FleetCreate ==
    \E uid \in Users, body \in FleetBodies :
        Quiescent /\ nextId <= MaxListed /\ Create(1, uid, body)

FleetAssign ==
    \E role \in assignRoles, id \in ListedIds, v \in {NULL} \cup Vehicles :
        Quiescent /\ AssignBegin(1, role, id, [vehicle_id |-> v])

NextFleet ==
    \/ FleetCreate
    \/ FleetAssign
    \/ StepAssignWrite
    \/ StepAssignRelease
    \/ StepAssignClaim
    \/ StepRespond

SpecFleet == Init /\ [][NextFleet]_vars

\* ------------------- dispatch: one alert, authorized Assign and SetStatus
DispatchCreate ==
    \E uid \in Users :
        Quiescent /\ nextId <= MaxAlerts /\ Create(1, uid, GoodBody)

DispatchAssign ==
    \E role \in assignRoles, id \in AlertIds, v \in {NULL} \cup Vehicles :
        Quiescent /\ AssignBegin(1, role, id, [vehicle_id |-> v])

DispatchSetStatus ==
    \E role \in statusRoles, id \in AlertIds, status \in validStatuses :
        Quiescent /\ SetStatusBegin(1, role, id, [status |-> status])

\* The same SetStatus once more, arriving after the first one was answered and
\* before anything else.
RepeatSetStatus ==
    \E role \in statusRoles :
        /\ req[1].pc = "done"
        /\ resp[1].q.op = "status"
        /\ SetStatusBegin(2, role, resp[1].q.id, [status |-> resp[1].q.status])

NextDispatch ==
    \/ DispatchCreate
    \/ DispatchAssign
    \/ DispatchSetStatus
    \/ RepeatSetStatus
    \/ StepSetStatusVehicle
    \/ StepAssignWrite
    \/ StepAssignRelease
    \/ StepAssignClaim
    \/ StepRespond

SpecDispatch == Init /\ [][NextDispatch]_vars

\* ------------------------ races: two requests in flight on the same alert
\* Both callers are dispatchers, a role every operation here admits, and the
\* store answers every call: a step in which a store call fails is left out
\* (clean stays true).  The alert's owner plays no part in Assign or SetStatus:
\* user 1 creates it.  The statuses set are the two that SetStatus carries over
\* to the vehicle.
RaceStatuses == {"responding", "resolved"}

RaceCreate ==
    \E uid \in {1} :
        Quiescent /\ nextId <= MaxAlerts /\ Create(1, uid, GoodBody) /\ clean'

\* The first request arrives with nothing else in flight.
RaceFirstAssign ==
    \E id \in AlertIds, v \in {NULL} \cup Vehicles :
        Quiescent /\ AssignBegin(1, "dispatcher", id, [vehicle_id |-> v]) /\ clean'

RaceFirstSetStatus ==
    \E id \in AlertIds, status \in RaceStatuses :
        Quiescent /\ SetStatusBegin(1, "dispatcher", id, [status |-> status]) /\ clean'

\* The second arrives while the first is between two store calls, or answered.
RaceSecondAssign ==
    \E id \in AlertIds, v \in {NULL} \cup Vehicles :
        /\ req[1].pc # "idle"
        /\ AssignBegin(2, "dispatcher", id, [vehicle_id |-> v])
        /\ clean'

RaceSecondSetStatus ==
    \E id \in AlertIds, status \in RaceStatuses :
        /\ req[1].pc # "idle"
        /\ SetStatusBegin(2, "dispatcher", id, [status |-> status])
        /\ clean'

RaceSetStatusVehicle == \E r \in Slots : SetStatusVehicle(r) /\ clean'

RaceAssignWrite == \E r \in Slots : AssignWrite(r) /\ clean'

RaceAssignRelease == \E r \in Slots : AssignRelease(r) /\ clean'

RaceAssignClaim == \E r \in Slots : AssignClaim(r) /\ clean'

\* The responses leave once no request is between two store calls.
RaceRespond ==
    \E r \in Slots :
        (\A s \in Slots : req[s].pc \in {"idle", "done"}) /\ Respond(r)

NextRace ==
    \/ RaceCreate
    \/ RaceFirstAssign
    \/ RaceFirstSetStatus
    \/ RaceSecondAssign
    \/ RaceSecondSetStatus
    \/ RaceSetStatusVehicle
    \/ RaceAssignWrite
    \/ RaceAssignRelease
    \/ RaceAssignClaim
    \/ RaceRespond

SpecRace == Init /\ [][NextRace]_vars

\* ================================================================ claims
\* A request in slot r has been answered and its response not yet sent off.
Done(r) == req[r].pc = "done"

\* The request in slot r changed no alert record and no vehicle record.
Unchanged(r) == alerts = resp[r].pre.alerts /\ vehicles = resp[r].pre.vehicles

\* No other request is in flight or answered beside the one in slot r.
RanAlone(r) == \A s \in Slots \ {r} : req[s].pc = "idle"

\* The roles the specification allows for each gated operation.
ClaimedRoles(op) ==
    CASE op = "update" -> {"admin", "dispatcher"}
      [] op = "status" -> {"admin", "dispatcher", "rescuer"}
      [] op = "assign" -> {"admin", "dispatcher"}
      [] op = "delete" -> {"admin"}

GatedOps == {"update", "status", "assign", "delete"}

ClaimedStatuses == {"pending", "responding", "resolved", "cancelled"}

\* C1 as stated: a request whose caller role is outside the operation's
\* allowed set is answered Forbidden (403) and changes no alert and no vehicle.
C1_DeniedIsForbidden ==
    \A r \in Slots :
        (/\ Done(r)
         /\ resp[r].q.op \in GatedOps
         /\ resp[r].q.role \notin ClaimedRoles(resp[r].q.op))
        => resp[r].code = 403 /\ Unchanged(r)

\* C1 amended: such a request changes no alert and no vehicle and is answered
\* Forbidden (403), except that SetStatus with a status outside the four valid
\* values is answered BadRequest (400), the status being validated first.
C1_DeniedChangesNothing ==
    \A r \in Slots :
        (/\ Done(r)
         /\ resp[r].q.op \in GatedOps
         /\ resp[r].q.role \notin ClaimedRoles(resp[r].q.op))
        => /\ Unchanged(r)
           /\ resp[r].code =
                 IF resp[r].q.op = "status" /\ resp[r].q.status \notin ClaimedStatuses
                 THEN 400 ELSE 403

\* C1 witness: a rescuer's Assign of a vehicle to an existing alert was denied.
C1_Witness ==
    /\ Done(1)
    /\ resp[1].q.op = "assign"
    /\ resp[1].q.role = "rescuer"
    /\ resp[1].q.id \in DOMAIN alerts
    /\ resp[1].q.vehicle_id # NULL
    /\ resp[1].code = 403

\* C2 as stated: SetStatus by role user is answered Forbidden (403) for every
\* status value of the payload, valid, invalid or absent, and changes nothing.
C2_UserAlwaysForbidden ==
    \A r \in Slots :
        (Done(r) /\ resp[r].q.op = "status" /\ resp[r].q.role = "user")
        => resp[r].code = 403 /\ Unchanged(r)

\* C2 amended: SetStatus by role user changes nothing and is answered Forbidden
\* (403) for each of the four valid status values, and BadRequest (400) for an
\* invalid or absent one.
C2_UserNeverSetsStatus ==
    \A r \in Slots :
        (Done(r) /\ resp[r].q.op = "status" /\ resp[r].q.role = "user")
        => /\ Unchanged(r)
           /\ resp[r].q.status \in ClaimedStatuses => resp[r].code = 403
           /\ resp[r].q.status \notin ClaimedStatuses => resp[r].code = 400

\* C2 witness: a user asked to resolve an existing alert that has a vehicle.
C2_Witness ==
    /\ Done(1)
    /\ resp[1].q.op = "status"
    /\ resp[1].q.role = "user"
    /\ resp[1].q.status = "resolved"
    /\ resp[1].q.id \in DOMAIN alerts
    /\ alerts[resp[1].q.id].assigned_vehicle_id # NULL
    /\ resp[1].code = 403

\* C3: SetStatus with a status outside {pending, responding, resolved,
\* cancelled} is answered BadRequest (400) whatever the caller's role, and
\* changes neither the alert nor any vehicle.
C3_InvalidStatusIsBadRequest ==
    \A r \in Slots :
        (Done(r) /\ resp[r].q.op = "status" /\ resp[r].q.status \notin ClaimedStatuses)
        => resp[r].code = 400 /\ Unchanged(r)

\* C3 witness: a user sent an invalid status for an existing alert whose
\* vehicle is not available.
C3_Witness ==
    /\ Done(1)
    /\ resp[1].q.op = "status"
    /\ resp[1].q.role = "user"
    /\ resp[1].q.status = "bogus"
    /\ resp[1].q.id \in DOMAIN alerts
    /\ alerts[resp[1].q.id].assigned_vehicle_id # NULL
    /\ vehicles[alerts[resp[1].q.id].assigned_vehicle_id] # "available"
    /\ resp[1].code = 400

\* The alert the request in slot r named, as it was when the request arrived.
PreAlert(r) == resp[r].pre.alerts[resp[r].q.id]

\* C4: an authorized Assign that ran alone with every store call succeeding,
\* on an alert whose assigned_vehicle_id was old, naming a vehicle new # old
\* (new may be null): afterwards the alert's assigned_vehicle_id is new, vehicle
\* old (if any) is available and vehicle new (if any) is assigned.
C4_AssignSwapsVehicles ==
    \A r \in Slots :
        (/\ Done(r)
         /\ RanAlone(r)
         /\ resp[r].q.op = "assign"
         /\ resp[r].q.role \in {"admin", "dispatcher"}
         /\ resp[r].code = 200
         /\ resp[r].fails = {}
         /\ PreAlert(r).assigned_vehicle_id # resp[r].q.vehicle_id)
        => LET old == PreAlert(r).assigned_vehicle_id
               new == resp[r].q.vehicle_id
           IN /\ alerts[resp[r].q.id].assigned_vehicle_id = new
              /\ old # NULL => vehicles[old] = "available"
              /\ new # NULL => vehicles[new] = "assigned"

\* C4 witness: an Assign replaced a vehicle that was not available by another
\* vehicle that was not assigned.
C4_Witness ==
    /\ Done(1)
    /\ resp[1].q.op = "assign"
    /\ resp[1].code = 200
    /\ resp[1].fails = {}
    /\ PreAlert(1).assigned_vehicle_id # NULL
    /\ resp[1].q.vehicle_id # NULL
    /\ PreAlert(1).assigned_vehicle_id # resp[1].q.vehicle_id
    /\ resp[1].pre.vehicles[PreAlert(1).assigned_vehicle_id] # "available"
    /\ resp[1].pre.vehicles[resp[1].q.vehicle_id] # "assigned"

\* C5: an authorized SetStatus that ran alone with every store call succeeding,
\* on an alert with a non-null assigned_vehicle_id: afterwards the alert's
\* status is the requested one, and the assigned vehicle is responding if the
\* requested status is responding and available if it is resolved.
C5_SetStatusReconcilesVehicle ==
    \A r \in Slots :
        (/\ Done(r)
         /\ RanAlone(r)
         /\ resp[r].q.op = "status"
         /\ resp[r].q.role \in {"admin", "dispatcher", "rescuer"}
         /\ resp[r].code = 200
         /\ resp[r].fails = {}
         /\ PreAlert(r).assigned_vehicle_id # NULL)
        => LET v == PreAlert(r).assigned_vehicle_id
           IN /\ alerts[resp[r].q.id].status = resp[r].q.status
              /\ resp[r].q.status = "responding" => vehicles[v] = "responding"
              /\ resp[r].q.status = "resolved" => vehicles[v] = "available"

\* C5 witness: a rescuer resolved an alert whose vehicle was responding.
C5_Witness ==
    /\ Done(1)
    /\ resp[1].q.op = "status"
    /\ resp[1].q.role = "rescuer"
    /\ resp[1].q.status = "resolved"
    /\ resp[1].code = 200
    /\ resp[1].fails = {}
    /\ PreAlert(1).assigned_vehicle_id # NULL
    /\ PreAlert(1).status = "responding"
    /\ resp[1].pre.vehicles[PreAlert(1).assigned_vehicle_id] = "responding"

VehicleCalls == {"release", "claim", "vehicle"}

\* C6: when the alert write of Assign or SetStatus succeeded and a later
\* vehicle status write (release, claim or reconciliation) failed, the caller
\* is answered 200 with the updated alert, and the alert keeps what was written.
C6_VehicleFailureIsolated ==
    \A r \in Slots :
        (/\ Done(r)
         /\ RanAlone(r)
         /\ resp[r].q.op \in {"assign", "status"}
         /\ resp[r].fails \cap VehicleCalls # {})
        => /\ resp[r].code = 200
           /\ resp[r].data = <<alerts[resp[r].q.id]>>
           /\ resp[r].q.op = "status" => alerts[resp[r].q.id].status = resp[r].q.status
           /\ resp[r].q.op = "assign" =>
                 /\ alerts[resp[r].q.id].assigned_vehicle_id = resp[r].q.vehicle_id
                 /\ alerts[resp[r].q.id].assigned_responder_id = resp[r].q.responder_id

\* C6 witness: an Assign whose release of the old vehicle and claim of the new
\* one both failed.
C6_Witness ==
    /\ Done(1)
    /\ resp[1].q.op = "assign"
    /\ resp[1].fails = {"release", "claim"}
    /\ vehicles[PreAlert(1).assigned_vehicle_id] # "available"

\* C7: the stored user_id of every alert is the id of the caller that created
\* it, whatever requests followed.
C7_OwnerIsCreator ==
    \A i \in DOMAIN alerts : alerts[i].user_id = creator[i]

\* C8: for a caller of role user, whatever filters were requested, every alert
\* List returns has the caller's id as user_id.
C8_UserListsOwnAlertsOnly ==
    \A r \in Slots :
        (Done(r) /\ resp[r].q.op = "list" /\ resp[r].q.role = "user")
        => \A k \in 1..Len(resp[r].data) : resp[r].data[k].user_id = resp[r].q.uid

\* C8 witness: a user filtered by another user's id, that user owning an alert,
\* and was given the caller's own alert.
C8_Witness ==
    /\ Done(1)
    /\ resp[1].q.op = "list"
    /\ resp[1].q.role = "user"
    /\ Has(resp[1].q.query, "user_id")
    /\ resp[1].q.query.user_id # resp[1].q.uid
    /\ \E i \in DOMAIN alerts : alerts[i].user_id = resp[1].q.query.user_id
    /\ resp[1].code = 200
    /\ Len(resp[1].data) = 1

\* C9: for a caller of role user and an existing alert, whenever the store
\* read succeeds: Get on an alert of another user is answered Forbidden (403),
\* Get on the caller's own alert is answered 200 with that alert; and in no
\* case is another user's alert in the response.
C9_UserGetsOwnAlertOnly ==
    \A r \in Slots :
        (/\ Done(r)
         /\ resp[r].q.op = "get"
         /\ resp[r].q.role = "user"
         /\ resp[r].q.id \in DOMAIN alerts)
        => IF alerts[resp[r].q.id].user_id # resp[r].q.uid
           THEN /\ resp[r].data = << >>
                /\ resp[r].fails = {} => resp[r].code = 403
           ELSE resp[r].fails = {} =>
                    resp[r].code = 200 /\ resp[r].data = <<alerts[resp[r].q.id]>>

\* C9 witness: a user was refused an alert that another user created.
C9_Witness ==
    /\ Done(1)
    /\ resp[1].q.op = "get"
    /\ resp[1].q.role = "user"
    /\ resp[1].q.id \in DOMAIN alerts
    /\ alerts[resp[1].q.id].user_id # resp[1].q.uid
    /\ creator[resp[1].q.id] # resp[1].q.uid
    /\ resp[1].code = 403

\* C10: Delete by a dispatcher is answered Forbidden (403) and leaves the alert
\* in place; and a Get of an id whose alert was deleted is answered NotFound
\* (404) whenever the store itself does not fail.
C10_DeletedIsNotFound ==
    \A r \in Slots :
        /\ (Done(r) /\ resp[r].q.op = "delete" /\ resp[r].q.role = "dispatcher")
           => resp[r].code = 403 /\ Unchanged(r)
        /\ (/\ Done(r)
            /\ resp[r].q.op = "get"
            /\ resp[r].q.id \in DOMAIN creator
            /\ resp[r].q.id \notin DOMAIN alerts
            /\ resp[r].fails = {})
           => resp[r].code = 404

\* What the specification requires of a Create payload: the four required
\* keys present and non-empty, the two enumerated ones inside their sets.
ClaimedRequired(body) ==
    /\ \A k \in {"alert_type", "severity"} : Has(body, k) /\ body[k] # ""
    /\ \A k \in {"title", "location"} : Has(body, k) /\ body[k] # << >>

ClaimedTypes == {"medical", "fire", "accident", "crime", "natural_disaster", "other"}

ClaimedSeverities == {"low", "medium", "high", "critical"}

ClaimedValid(body) ==
    /\ ClaimedRequired(body)
    /\ body.alert_type \in ClaimedTypes
    /\ body.severity \in ClaimedSeverities

\* C11: a Create whose payload misses alert_type, severity, title or location,
\* or has alert_type or severity outside its set, is answered BadRequest (400)
\* and persists nothing; every other Create, the insert succeeding, is answered
\* 201 and persists exactly one alert, with status pending and no vehicle, and
\* leaves every other alert and every vehicle as it was.
C11_CreateValidates ==
    \A r \in Slots :
        (Done(r) /\ resp[r].q.op = "create")
        => IF ~ClaimedValid(resp[r].q.body)
           THEN resp[r].code = 400 /\ Unchanged(r)
           ELSE resp[r].fails = {} =>
                  /\ resp[r].code = 201
                  /\ vehicles = resp[r].pre.vehicles
                  /\ \E n \in DOMAIN alerts \ DOMAIN resp[r].pre.alerts :
                       /\ DOMAIN alerts = DOMAIN resp[r].pre.alerts \cup {n}
                       /\ alerts[n].status = "pending"
                       /\ alerts[n].assigned_vehicle_id = NULL
                       /\ \A i \in DOMAIN resp[r].pre.alerts :
                            alerts[i] = resp[r].pre.alerts[i]

\* C11 witness: a second alert was created while the first one held a vehicle
\* that was not available.
C11_Witness ==
    /\ Done(1)
    /\ resp[1].q.op = "create"
    /\ resp[1].code = 201
    /\ \E i \in DOMAIN resp[1].pre.alerts :
         /\ alerts[i].assigned_vehicle_id # NULL
         /\ vehicles[alerts[i].assigned_vehicle_id] = "assigned"

\* Text made of blanks only (the empty text included).
OnlySpaces(t) == \A k \in 1..Len(t) : t[k] = " "

\* C12: a Create whose title or location is made of whitespace only is
\* rejected (400, nothing persisted), and every alert Create persists has a
\* non-empty title and a non-empty location.
C12_CreatedTextNonEmpty ==
    \A r \in Slots :
        (Done(r) /\ resp[r].q.op = "create")
        => /\ (\E k \in {"title", "location"} :
                   Has(resp[r].q.body, k) /\ OnlySpaces(resp[r].q.body[k]))
              => resp[r].code = 400 /\ Unchanged(r)
           /\ resp[r].code = 201
              => resp[r].data[1].title # << >> /\ resp[r].data[1].location # << >>

\* C13: a SetStatus by an authorized caller on an existing alert, repeated with
\* the same valid status right after the first was answered, every store call
\* of both succeeding: the second is answered 200 like the first, and leaves
\* the alert's status and the assigned vehicle's status as the first left them.
C13_SetStatusIdempotent ==
    (/\ Done(1) /\ Done(2)
     /\ resp[1].q.op = "status" /\ resp[2].q.op = "status"
     /\ resp[2].q.id = resp[1].q.id
     /\ resp[2].q.status = resp[1].q.status
     /\ resp[1].q.status \in ClaimedStatuses
     /\ resp[1].q.role \in {"admin", "dispatcher", "rescuer"}
     /\ resp[2].q.role \in {"admin", "dispatcher", "rescuer"}
     /\ resp[1].q.id \in DOMAIN resp[1].pre.alerts
     /\ resp[1].fails = {} /\ resp[2].fails = {})
    => LET id == resp[1].q.id
           first == resp[2].pre
           v == first.alerts[id].assigned_vehicle_id
       IN /\ resp[1].code = 200 /\ resp[2].code = 200
          /\ alerts[id].status = first.alerts[id].status
          /\ alerts[id].status = resp[1].q.status
          /\ v # NULL => vehicles[v] = first.vehicles[v]

\* C13 witness: an alert whose vehicle was assigned was set to responding
\* twice in a row, by two different callers.
C13_Witness ==
    /\ Done(1) /\ Done(2)
    /\ resp[1].q.op = "status" /\ resp[2].q.op = "status"
    /\ resp[1].q.status = "responding" /\ resp[2].q.status = "responding"
    /\ resp[1].q.role # resp[2].q.role
    /\ resp[1].fails = {} /\ resp[2].fails = {}
    /\ resp[1].code = 200 /\ resp[2].code = 200
    /\ PreAlert(1).assigned_vehicle_id # NULL
    /\ resp[1].pre.vehicles[PreAlert(1).assigned_vehicle_id] = "assigned"
    /\ vehicles[PreAlert(1).assigned_vehicle_id] = "responding"

\* C14: a SetStatus to pending or cancelled, and a SetStatus to any status on
\* an alert with no assigned vehicle, changes the status of no vehicle.
C14_NoVehicleAction ==
    \A r \in Slots :
        (/\ Done(r)
         /\ RanAlone(r)
         /\ resp[r].q.op = "status"
         /\ \/ resp[r].q.status \in {"pending", "cancelled"}
            \/ /\ resp[r].q.id \in DOMAIN resp[r].pre.alerts
               /\ PreAlert(r).assigned_vehicle_id = NULL)
        => vehicles = resp[r].pre.vehicles

\* C14 witness: an alert whose vehicle was responding was cancelled.
C14_Witness ==
    /\ Done(1)
    /\ resp[1].q.op = "status"
    /\ resp[1].q.status = "cancelled"
    /\ resp[1].code = 200
    /\ PreAlert(1).assigned_vehicle_id # NULL
    /\ vehicles[PreAlert(1).assigned_vehicle_id] = "responding"

C16_AssignedNotAvailable ==
    (Quiescent /\ clean)
    => \A i \in DOMAIN alerts :
         alerts[i].assigned_vehicle_id # NULL
         => vehicles[alerts[i].assigned_vehicle_id] # "available"

\* C17: with no request in flight, after Assign and SetStatus requests on one
\* alert none of whose store calls failed: if the alert is responding and has
\* a vehicle, that vehicle is responding.
C17_RespondingVehicleResponds ==
    (Quiescent /\ clean)
    => \A i \in DOMAIN alerts :
         (alerts[i].status = "responding" /\ alerts[i].assigned_vehicle_id # NULL)
         => vehicles[alerts[i].assigned_vehicle_id] = "responding"

\* AssignAlone is what the steps of Assign do when nothing interleaves and no
\* store call fails.
AssignAloneIsAssign ==
    \A r \in Slots :
        (/\ Done(r)
         /\ RanAlone(r)
         /\ resp[r].q.op = "assign"
         /\ resp[r].q.role \in assignRoles
         /\ resp[r].fails = {})
        => Store = AssignAlone(resp[r].pre, resp[r].q)

\* C18: two authorized Assign requests on the same existing alert, their store
\* calls interleaved in any way and all succeeding: once both are answered, the
\* alerts and the vehicle statuses are those of running the two requests one
\* after the other, in one order or the other, from the store the first found.
C18_AssignsSerialize ==
    (/\ Done(1) /\ Done(2)
     /\ resp[1].q.op = "assign" /\ resp[2].q.op = "assign"
     /\ resp[1].q.id = resp[2].q.id
     /\ resp[1].q.id \in DOMAIN resp[1].pre.alerts
     /\ resp[1].fails = {} /\ resp[2].fails = {})
    => Store \in {AssignAlone(AssignAlone(resp[1].pre, resp[1].q), resp[2].q),
                  AssignAlone(AssignAlone(resp[1].pre, resp[2].q), resp[1].q)}

\* C19: a SetStatus(responding) and an Assign that replaces the alert's vehicle
\* old by another vehicle, on the same alert, their store calls interleaved in
\* any way and all succeeding: once both are answered, vehicle old is available.
C19_ReplacedVehicleAvailable ==
    \A s, a \in Slots :
        (/\ Done(s) /\ Done(a)
         /\ resp[s].q.op = "status" /\ resp[a].q.op = "assign"
         /\ resp[s].q.status = "responding"
         /\ resp[s].q.id = resp[a].q.id
         /\ resp[s].q.id \in DOMAIN resp[1].pre.alerts
         /\ resp[s].fails = {} /\ resp[a].fails = {}
         /\ resp[1].pre.alerts[resp[s].q.id].assigned_vehicle_id # NULL
         /\ resp[a].q.vehicle_id # NULL
         /\ resp[a].q.vehicle_id # resp[1].pre.alerts[resp[s].q.id].assigned_vehicle_id)
        => vehicles[resp[1].pre.alerts[resp[s].q.id].assigned_vehicle_id] = "available"

\* C20: no vehicle is referenced by the assigned_vehicle_id of two alerts, in
\* any state that no failed store call led to.
C20_NoSharedVehicle ==
    clean =>
      \A i, j \in DOMAIN alerts :
          (i # j /\ alerts[i].assigned_vehicle_id # NULL)
          => alerts[i].assigned_vehicle_id # alerts[j].assigned_vehicle_id

\* C21: the status of every stored alert is one of pending, responding,
\* resolved, cancelled, in any state that no failed store call led to.
C21_StoredStatusValid ==
    clean => \A i \in DOMAIN alerts : alerts[i].status \in ClaimedStatuses

PrimaryCalls == {"read", "write"}

\* C22: when the read of Assign, or the alert write of Assign or SetStatus,
\* fails, the request is answered with a server error (500), it has changed no
\* alert and no vehicle, and no later store call of it has failed either: the
\* failed call was its last.
C22_PrimaryFailureShortCircuits ==
    \A r \in Slots :
        (/\ Done(r)
         /\ RanAlone(r)
         /\ resp[r].q.op \in {"assign", "status"}
         /\ resp[r].fails \cap PrimaryCalls # {})
        => /\ resp[r].code = 500
           /\ Unchanged(r)
           /\ Cardinality(resp[r].fails) = 1

\* C22 witness: the alert write of an Assign failed, after a read that found a
\* vehicle to release and with another vehicle to claim.
C22_Witness ==
    /\ Done(1)
    /\ resp[1].q.op = "assign"
    /\ resp[1].fails = {"write"}
    /\ resp[1].code = 500
    /\ PreAlert(1).assigned_vehicle_id # NULL
    /\ resp[1].q.vehicle_id # NULL
    /\ resp[1].q.vehicle_id # PreAlert(1).assigned_vehicle_id
    /\ vehicles[PreAlert(1).assigned_vehicle_id] = "assigned"
    /\ vehicles[resp[1].q.vehicle_id] = "available"

====
